---- MODULE Spec2Model ----
(***************************************************************************)
(* BaseCom: the packet codec (ComPacket / TagedComPacket), its per-field   *)
(* writers and readers (namespace utils) and the Bitfield storage unit.    *)
(*                                                                         *)
(* Bytes are naturals 0..255.  A buffer is a sequence of bytes; positions  *)
(* are 0-based offsets from the start of the buffer, as the iterators and  *)
(* pointers of the source are.  A scalar is its sizeof(T) bytes of host    *)
(* memory, a string its content bytes (no terminator), a Bitfield its      *)
(* backing storage bytes, an array the sequence of its elements.           *)
(***************************************************************************)
EXTENDS Integers, Sequences, FiniteSets, TLC

VARIABLES
    schema,   \* the field list T... the packet type is instantiated with
    packet,   \* ComPacket::elements of the sending instance
    target,   \* ComPacket::elements of the receiving instance
    id,       \* the identifier bytes (TagedComPacket::id / idbytes)
    buffer,   \* the caller-owned byte buffer
    storage,  \* Bitfield::storage of a standalone Bitfield
    pc,       \* where the calling program is / which call returned last
    ser,      \* what the last Serialize or field writer call did
    match,    \* what the last CheckIDMatch call returned
    uns,      \* what the last Unserialize or field reader call did
    bit       \* what the last Bitfield accessor call did

vars == <<schema, packet, target, id, buffer, storage, pc, ser, match, uns, bit>>

(***************************************************************************)
(* Bounds of the model.                                                    *)
(***************************************************************************)
\* bytes a caller buffer offers beyond the packet's largest encoding
Slack == 1
\* longest content of a std::string field the sender assigns
MaxStr == 2

\* size_t arithmetic is modulo 2^w; w = 16 is the narrowest size_t, and every
\* length of the model is far below it, so a wider size_t behaves the same
SizeMod == 65536

\* byte values the sender and the channel draw from: the terminator and two
\* distinct content bytes
ByteVals == {0, 1, 2}

Min2(a, b) == IF a <= b THEN a ELSE b

\* a value converted to size_t
SizeT(x) == x % SizeMod

\* all sequences over S of length exactly n / at most n
SeqsOfLen(S, n) == [1..n -> S]
SeqsUpTo(S, n) == UNION {SeqsOfLen(S, k) : k \in 0..n}

RECURSIVE SumSeq(_)
SumSeq(s) == IF s = <<>> THEN 0 ELSE Head(s) + SumSeq(Tail(s))

(***************************************************************************)
(* Field categories.  n is sizeof(T) of a scalar, MAX_SIZE_ of an          *)
(* etl::string, bitlength of a Bitfield, the length of a std::array; e is  *)
(* the element category of an array.                                       *)
(***************************************************************************)
Scalar(n)    == [k |-> "scalar", n |-> n, e |-> <<>>]
StdString    == [k |-> "string", n |-> 0, e |-> <<>>]
EtlString(c) == [k |-> "etl",    n |-> c, e |-> <<>>]
Bits(b)      == [k |-> "bits",   n |-> b, e |-> <<>>]
Array(l, d)  == [k |-> "array",  n |-> l, e |-> <<d>>]

\* Bitfield::BYTE_LENGTH
BYTE_LENGTH(bitlength) == (bitlength + 7) \div 8

\* sizeof(Bitfield::storage): CalculateArrayLength(BYTE_LENGTH) units of one byte
CalculateArrayLength(bytelength) == (bytelength + 1 - 1) \div 1

\* Bitfield::GetByteLength
GetByteLength(bitlength) == BYTE_LENGTH(bitlength)

\* a value-initialised field: tupletype()
RECURSIVE DefaultValue(_)
DefaultValue(d) ==
    CASE d.k = "scalar" -> [i \in 1..d.n |-> 0]
      [] d.k = "string" -> <<>>
      [] d.k = "etl"    -> <<>>
      [] d.k = "bits"   -> [i \in 1..CalculateArrayLength(BYTE_LENGTH(d.n)) |-> 0]
      [] d.k = "array"  -> [i \in 1..d.n |-> DefaultValue(d.e[1])]

\* ComPacket(): elements value-initialised
DefaultPacket(sch) == [i \in 1..Len(sch) |-> DefaultValue(sch[i])]

(***************************************************************************)
(* Sizes.                                                                  *)
(***************************************************************************)

\* the std::array overloads of namespace utils call the element's overload
\* unqualified: the call finds the overloads declared before them (arithmetic,
\* std::string, std::array itself) and not the etl::string and Bitfield
\* overloads, which are declared later and live in a namespace that
\* argument-dependent lookup does not search.  An array type builds if its
\* element type is found.
RECURSIVE array_builds(_)
array_builds(d) ==
    d.k = "array" =>
        /\ d.e[1].k \in {"scalar", "string", "array"}
        /\ array_builds(d.e[1])

\* a variant of getSerializedLength that counts a bounded string by its
\* capacity
RECURSIVE getSerializedLength_capacity(_, _)
getSerializedLength_capacity(d, v) ==
    CASE d.k = "scalar" -> d.n
      [] d.k = "string" -> Len(v) + 1
      [] d.k = "etl"    -> d.n + 1
      [] d.k = "bits"   -> GetByteLength(d.n)
      [] d.k = "array"  ->
            SumSeq([i \in 1..d.n |-> getSerializedLength_capacity(d.e[1], v[i])])

\* utils::getSerializedLength, all overloads
RECURSIVE getSerializedLength(_, _)
getSerializedLength(d, v) ==
    CASE d.k = "scalar" -> d.n
      [] d.k = "string" -> Len(v) + 1
      [] d.k = "etl"    -> Len(v) + 1
      [] d.k = "bits"   -> GetByteLength(d.n)
      [] d.k = "array" /\ array_builds(d) ->
            SumSeq([i \in 1..d.n |-> getSerializedLength(d.e[1], v[i])])

\* ComPacket::GetSerializedLength
GetSerializedLength(sch, elems) ==
    SumSeq([i \in 1..Len(sch) |-> getSerializedLength(sch[i], elems[i])])

\* tuple_helper::has_type<string, tuple<T...>>: an exact match among the
\* tuple's own types
has_type(k, sch) == \E i \in 1..Len(sch) : sch[i].k = k

\* ComPacket::SupportsMaxSize
SupportsMaxSize(sch) == ~has_type("string", sch)

\* utils::max_size<T>::value (no value for std::string: enable_if fails)
RECURSIVE max_size(_)
max_size(d) ==
    CASE d.k = "scalar" -> d.n
      [] d.k = "etl"    -> d.n + 1
      [] d.k = "bits"   -> BYTE_LENGTH(d.n)
      [] d.k = "array"  -> max_size(d.e[1]) * d.n

\* utils::max_byte_length<T...>::value, returned by ComPacket::GetMaxSize
GetMaxSize(sch) == SumSeq([i \in 1..Len(sch) |-> max_size(sch[i])])

(***************************************************************************)
(* Writers.  A writer works on w = [mem, it, wr, ab]: the memory holding   *)
(* the buffer, the cursor, the set of positions written so far, and        *)
(* whether an assert() of the call would have failed.  end is the end      *)
(* bound the caller gives.  A write to a position outside mem cannot be    *)
(* stored; it is still recorded in wr.                                     *)
(***************************************************************************)
Writer(mem, it) == [mem |-> mem, it |-> it, wr |-> {}, ab |-> FALSE]

\* memcpy(&(*it), src, k); advance(it, k)
CopyAdvance(w, src, k) ==
    [w EXCEPT
       !.mem = [p \in 1..Len(w.mem) |->
                  IF p - 1 >= w.it /\ p - 1 < w.it + k
                  THEN src[p - w.it] ELSE w.mem[p]],
       !.wr = w.wr \cup (w.it .. (w.it + k - 1)),
       !.it = w.it + k]

\* *it = b; it++
PutAdvance(w, b) == CopyAdvance(w, <<b>>, 1)

\* utils::serializeToBuffer(const T *data, it, end, tocopy)
serializeToBuffer_ptr(w, end, data, tocopy) ==
    LET dist == end - w.it
        n    == Min2(tocopy, SizeT(dist))
    IN  [CopyAdvance(w, data, n) EXCEPT !.ab = w.ab \/ dist < 0]

\* utils::serializeToBuffer(const T &data, it, end), arithmetic T
serializeToBuffer_arith(w, end, data) ==
    LET dist       == end - w.it
        typelength == Min2(Len(data), SizeT(dist))
    IN  serializeToBuffer_ptr([w EXCEPT !.ab = w.ab \/ dist < 0],
                              end, data, typelength)

\* utils::serializeToBuffer(const string &data, it, end) and its
\* etl::string twin: typelength - 1 is computed in size_t
serializeToBuffer_string(w, end, data) ==
    LET dist       == end - w.it
        typelength == Min2(Len(data) + 1, SizeT(dist))
        w1         == serializeToBuffer_ptr([w EXCEPT !.ab = w.ab \/ dist < 0],
                                            end, data, SizeT(typelength - 1))
    IN  PutAdvance(w1, 0)

\* Bitfield::BuildPacket, called by utils::serializeToBuffer(const Bitfield &)
BuildPacket(w, end, store) ==
    LET length == Min2(Len(store), SizeT(end - w.it))
    IN  CopyAdvance(w, store, length)

\* utils::serializeToBuffer, dispatched on the field category; the array
\* overload writes its elements in index order
RECURSIVE serializeToBuffer(_, _, _, _)
RECURSIVE serializeArrayFrom(_, _, _, _, _)

\* a variant of the array loop that writes the elements last to first
RECURSIVE serializeArrayFrom_reversed(_, _, _, _, _)
serializeArrayFrom_reversed(d, v, i, w, end) ==
    IF i > d.n THEN w
    ELSE serializeArrayFrom_reversed(d, v, i + 1,
             serializeToBuffer(d.e[1], v[d.n + 1 - i], w, end), end)

serializeArrayFrom(d, v, i, w, end) ==
    CASE array_builds(d) ->
        IF i > d.n THEN w
        ELSE serializeArrayFrom(d, v, i + 1,
                                serializeToBuffer(d.e[1], v[i], w, end), end)

serializeToBuffer(d, v, w, end) ==
    CASE d.k = "scalar" -> serializeToBuffer_arith(w, end, v)
      [] d.k = "string" -> serializeToBuffer_string(w, end, v)
      [] d.k = "etl"    -> serializeToBuffer_string(w, end, v)
      [] d.k = "bits"   -> BuildPacket(w, end, v)
      [] d.k = "array" /\ array_builds(d) -> serializeArrayFrom(d, v, 1, w, end)

\* the fold of ComPacket::Serialize(begin, end) over the fields, in
\* declaration order
RECURSIVE serializeFields(_, _, _, _, _)
serializeFields(sch, elems, i, w, end) ==
    IF i > Len(sch) THEN w
    ELSE serializeFields(sch, elems, i + 1,
                         serializeToBuffer(sch[i], elems[i], w, end), end)

\* ComPacket::Serialize(begin, end): [ret, mem, wr, ab]
Serialize_range(sch, elems, mem, begin, end) ==
    LET packetLength   == GetSerializedLength(sch, elems)
        iteratorLength == end - begin
    IN  IF iteratorLength < 0 \/ packetLength > iteratorLength
        THEN [ret |-> 0, mem |-> mem, wr |-> {}, ab |-> iteratorLength < 0]
        ELSE LET w == serializeFields(sch, elems, 1, Writer(mem, begin), end)
             IN  [ret |-> w.it - begin, mem |-> w.mem, wr |-> w.wr, ab |-> w.ab]

\* copy(idbytes.begin(), idbytes.end(), buffer.begin())
CopyId(mem, idbytes) == CopyAdvance(Writer(mem, 0), idbytes, Len(idbytes))

\* ComPacket::Serialize(array<uint8_t, datalength> &, idbytes)
Serialize_array(sch, elems, mem, idbytes) ==
    LET c == CopyId(mem, idbytes)
        r == Serialize_range(sch, elems, c.mem, c.it, Len(mem))
    IN  [ret |-> r.ret + Len(idbytes), mem |-> r.mem,
         wr |-> c.wr \cup r.wr, ab |-> r.ab]

\* the static_assert of Serialize(array, idbytes): the instantiations that build
Serialize_array_builds(sch, datalength, idlength) ==
    IF SupportsMaxSize(sch) THEN datalength >= idlength + GetMaxSize(sch)
    ELSE datalength >= idlength

\* etl::ivector::resize / std::vector::resize: the size becomes n, new
\* elements are value-initialised
Resize(mem, n) ==
    [p \in 1..n |-> IF p <= Len(mem) THEN mem[p] ELSE 0]

\* ComPacket::Serialize(etl::ivector<uint8_t> &, idbytes); mem is the vector's
\* content and max_size its capacity
Serialize_ivector(sch, elems, mem, maxsize, idbytes) ==
    LET need == Len(idbytes) + (IF SupportsMaxSize(sch) THEN GetMaxSize(sch)
                                ELSE GetSerializedLength(sch, elems))
    IN  IF ~(maxsize >= need)
        THEN [ret |-> 0, mem |-> mem, wr |-> {}, ab |-> TRUE]
        ELSE LET m == Resize(mem, need)
                 c == CopyId(m, idbytes)
                 r == Serialize_range(sch, elems, c.mem, c.it, Len(m))
             IN  [ret |-> r.ret + Len(idbytes), mem |-> r.mem,
                  wr |-> c.wr \cup r.wr, ab |-> r.ab]

\* ComPacket::Serialize(vector<uint8_t> &, idbytes) (USE_MEMALLOC)
Serialize_vector(sch, elems, mem, idbytes) ==
    LET need == Len(idbytes) + (IF SupportsMaxSize(sch) THEN GetMaxSize(sch)
                                ELSE GetSerializedLength(sch, elems))
        m == Resize(mem, need)
        c == CopyId(m, idbytes)
        r == Serialize_range(sch, elems, c.mem, c.it, Len(m))
    IN  [ret |-> r.ret, mem |-> r.mem, wr |-> c.wr \cup r.wr, ab |-> r.ab]

(***************************************************************************)
(* Readers.  A reader is given the memory from its data pointer on (data), *)
(* the length the caller states, the element to fill and the validity flag *)
(* on entry; it yields r = [n, v, ok, rd]: the count it returns, the       *)
(* element and the flag afterwards, and the set of positions of data it    *)
(* read.  Positions are relative to the data pointer.                      *)
(***************************************************************************)
\* data[i]; a byte outside the modelled memory reads as 0
Peek(data, i) == IF i >= 0 /\ i < Len(data) THEN data[i + 1] ELSE 0

\* &data[k]
Advance(data, k) == SubSeq(data, k + 1, Len(data))

\* the k bytes at data
Take(data, k) == [i \in 1..k |-> Peek(data, i - 1)]

\* the positions a reader was at, seen from a pointer k bytes before
Shift(rd, k) == {p + k : p \in rd}


\* a variant of the loop of strlen_s whose bound test lets i reach maxlength
RECURSIVE strlen_s_from_inclusive(_, _, _, _)
strlen_s_from_inclusive(data, maxlength, i, rd) ==
    IF i <= maxlength
    THEN IF Peek(data, i) = 0
         THEN [i |-> i, rd |-> rd \cup {i}]
         ELSE strlen_s_from_inclusive(data, maxlength, i + 1, rd \cup {i})
    ELSE [i |-> i, rd |-> rd]

\* utils::strlen_s: the loop from i on, having read the positions rd;
\* [i, rd] when it ends
RECURSIVE strlen_s_from(_, _, _, _)
strlen_s_from(data, maxlength, i, rd) ==
    IF i < maxlength
    THEN IF Peek(data, i) = 0
         THEN [i |-> i, rd |-> rd \cup {i}]
         ELSE strlen_s_from(data, maxlength, i + 1, rd \cup {i})
    ELSE [i |-> i, rd |-> rd]

\* utils::strlen_s
strlen_s(data, maxlength) == strlen_s_from(data, maxlength, 0, {}).i

\* the positions strlen_s reads
strlen_s_reads(data, maxlength) == strlen_s_from(data, maxlength, 0, {}).rd


\* a variant of the scalar reader that copies what a short window holds
deserializeFromBuffer_arith_partial(data, length, element, valid) ==
    LET byte_size == Len(element)
    IN  IF length >= byte_size
        THEN [n |-> byte_size, v |-> Take(data, byte_size), ok |-> valid,
              rd |-> 0..(byte_size - 1)]
        ELSE [n |-> length,
              v |-> [i \in 1..byte_size |->
                       IF i <= length THEN Peek(data, i - 1) ELSE element[i]],
              ok |-> FALSE, rd |-> 0..(length - 1)]

\* utils::deserializeFromBuffer, arithmetic T
deserializeFromBuffer_arith(data, length, element, valid) ==
    LET byte_size == Len(element)
    IN  IF length >= byte_size
        THEN [n |-> byte_size, v |-> Take(data, byte_size), ok |-> valid,
              rd |-> 0..(byte_size - 1)]
        ELSE [n |-> length, v |-> element, ok |-> FALSE, rd |-> {}]



\* a variant of the std::string reader that counts a terminator whether the
\* window holds one or not
deserializeFromBuffer_string_counts_terminator(data, length, element, valid) ==
    LET stringlength == strlen_s(data, length)
    IN  [n  |-> stringlength + 1,
         v  |-> Take(data, stringlength),
         ok |-> valid,
         rd |-> strlen_s_reads(data, length) \cup (0..(stringlength - 1))]

\* a variant of the std::string reader that clears the flag when the window
\* ends before a terminator
deserializeFromBuffer_string_strict(data, length, element, valid) ==
    LET stringlength == strlen_s(data, length)
    IN  [n  |-> IF stringlength < length THEN stringlength + 1 ELSE stringlength,
         v  |-> Take(data, stringlength),
         ok |-> valid /\ stringlength < length,
         rd |-> strlen_s_reads(data, length) \cup (0..(stringlength - 1))]

\* utils::deserializeFromBuffer, std::string
deserializeFromBuffer_string(data, length, element, valid) ==
    LET stringlength == strlen_s(data, length)
    IN  [n  |-> IF stringlength < length THEN stringlength + 1 ELSE stringlength,
         v  |-> Take(data, stringlength),
         ok |-> valid,
         rd |-> strlen_s_reads(data, length) \cup (0..(stringlength - 1))]


\* a variant of the etl::string reader that leaves the terminator unconsumed
deserializeFromBuffer_etl_unterminated(MAX_SIZE, data, length, element, valid) ==
    LET stringlength == Min2(strlen_s(data, length), MAX_SIZE)
    IN  [n  |-> stringlength,
         v  |-> Take(data, stringlength),
         ok |-> valid,
         rd |-> strlen_s_reads(data, length) \cup (0..(stringlength - 1))]


\* a variant of the etl::string reader that does not limit the string to
\* MAX_SIZE_
deserializeFromBuffer_etl_unlimited(MAX_SIZE, data, length, element, valid) ==
    LET stringlength == strlen_s(data, length)
    IN  [n  |-> IF stringlength < length THEN stringlength + 1 ELSE stringlength,
         v  |-> Take(data, stringlength),
         ok |-> valid,
         rd |-> strlen_s_reads(data, length) \cup (0..(stringlength - 1))]


\* a variant of the etl::string reader that looks at the byte behind the
\* string to decide whether to count a terminator
deserializeFromBuffer_etl_peeks_terminator(MAX_SIZE, data, length, element, valid) ==
    LET stringlength == Min2(strlen_s(data, length), MAX_SIZE)
    IN  [n  |-> IF Peek(data, stringlength) = 0 THEN stringlength + 1 ELSE stringlength,
         v  |-> Take(data, stringlength),
         ok |-> valid,
         rd |-> strlen_s_reads(data, length) \cup (0..stringlength)]

\* utils::deserializeFromBuffer, etl::string<MAX_SIZE_>
deserializeFromBuffer_etl(MAX_SIZE, data, length, element, valid) ==
    LET stringlength == Min2(strlen_s(data, length), MAX_SIZE)
    IN  [n  |-> IF stringlength < length THEN stringlength + 1 ELSE stringlength,
         v  |-> Take(data, stringlength),
         ok |-> valid,
         rd |-> strlen_s_reads(data, length) \cup (0..(stringlength - 1))]



\* a variant of ParseData that leaves a short window unread and returns 0
ParseData_rejects_short(data, length, store, valid) ==
    IF length < Len(store)
    THEN [n |-> 0, v |-> store, ok |-> FALSE, rd |-> {}]
    ELSE [n  |-> Len(store), v |-> Take(data, Len(store)), ok |-> valid,
          rd |-> 0..(Len(store) - 1)]

\* a variant of ParseData that copies nothing from a short window
ParseData_all_or_nothing(data, length, store, valid) ==
    IF length < Len(store)
    THEN [n |-> length, v |-> store, ok |-> FALSE, rd |-> {}]
    ELSE [n  |-> Len(store), v |-> Take(data, Len(store)), ok |-> valid,
          rd |-> 0..(Len(store) - 1)]

\* Bitfield::ParseData, called by utils::deserializeFromBuffer(Bitfield &)
ParseData(data, length, store, valid) ==
    LET bytestowrite == IF length < Len(store) THEN length ELSE Len(store)
    IN  [n  |-> bytestowrite,
         v  |-> [i \in 1..Len(store) |->
                   IF i <= bytestowrite THEN Peek(data, i - 1) ELSE store[i]],
         ok |-> IF length < Len(store) THEN FALSE ELSE valid,
         rd |-> 0..(bytestowrite - 1)]

\* utils::deserializeFromBuffer, dispatched on the field category
RECURSIVE deserializeFromBuffer(_, _, _, _, _)
\* the loop of the std::array overload from element i on; r.n is readbytes
RECURSIVE deserializeArrayFrom(_, _, _, _, _)
deserializeArrayFrom(d, data, length, i, r) ==
    CASE array_builds(d) ->
        IF i > d.n THEN r
        ELSE LET e == deserializeFromBuffer(d.e[1], Advance(data, r.n),
                                            SizeT(length - r.n), r.v[i], r.ok)
             IN  deserializeArrayFrom(d, data, length, i + 1,
                     [n  |-> r.n + e.n,
                      v  |-> [r.v EXCEPT ![i] = e.v],
                      ok |-> e.ok,
                      rd |-> r.rd \cup Shift(e.rd, r.n)])


\* a variant of the array reader without the test of the window against the
\* array's size
deserializeFromBuffer_array_unchecked(d, data, length, element, valid) ==
    deserializeArrayFrom(d, data, length, 1,
        [n |-> 0, v |-> element, ok |-> valid, rd |-> {}])

\* utils::deserializeFromBuffer, std::array<T, arraylength>
deserializeFromBuffer_array(d, data, length, element, valid) ==
    LET byte_size == getSerializedLength(d, element)
    IN  IF length >= byte_size
        THEN deserializeArrayFrom(d, data, length, 1,
                 [n |-> 0, v |-> element, ok |-> valid, rd |-> {}])
        ELSE [n |-> length, v |-> element, ok |-> FALSE, rd |-> {}]

deserializeFromBuffer(d, data, length, element, valid) ==
    CASE d.k = "scalar" -> deserializeFromBuffer_arith(data, length, element, valid)
      [] d.k = "string" -> deserializeFromBuffer_string(data, length, element, valid)
      [] d.k = "etl"    -> deserializeFromBuffer_etl(d.n, data, length, element, valid)
      [] d.k = "bits"   -> ParseData(data, length, element, valid)
      [] d.k = "array" /\ array_builds(d) ->
            deserializeFromBuffer_array(d, data, length, element, valid)


\* a variant of the fold that hands every field reader a fresh flag, so that
\* the flag returned is the last field's
RECURSIVE unserializeFields_fresh_flag(_, _, _, _, _)
unserializeFields_fresh_flag(sch, data, length, i, r) ==
    IF i > Len(sch) THEN r
    ELSE LET e == deserializeFromBuffer(sch[i], Advance(data, r.n),
                                        SizeT(length - r.n), r.v[i], TRUE)
         IN  unserializeFields_fresh_flag(sch, data, length, i + 1,
                 [n  |-> r.n + e.n,
                  v  |-> [r.v EXCEPT ![i] = e.v],
                  ok |-> e.ok,
                  rd |-> r.rd \cup Shift(e.rd, r.n)])

\* the fold of ComPacket::Unserialize over the fields of parsed_elements, in
\* declaration order; r.n is offset, r.v parsed_elements, r.ok valid
RECURSIVE unserializeFields(_, _, _, _, _)
unserializeFields(sch, data, length, i, r) ==
    IF i > Len(sch) THEN r
    ELSE LET e == deserializeFromBuffer(sch[i], Advance(data, r.n),
                                        SizeT(length - r.n), r.v[i], r.ok)
         IN  unserializeFields(sch, data, length, i + 1,
                 [n  |-> r.n + e.n,
                  v  |-> [r.v EXCEPT ![i] = e.v],
                  ok |-> e.ok,
                  rd |-> r.rd \cup Shift(e.rd, r.n)])


\* a variant of Unserialize(data, length) that reports the whole window as
\* consumed
Unserialize_parse_whole_window(sch, data, length) ==
    [unserializeFields(sch, data, length, 1,
         [n |-> 0, v |-> DefaultPacket(sch), ok |-> TRUE, rd |-> {}])
     EXCEPT !.n = length]

\* the fold over a fresh parsed_elements tuple, in Unserialize(it, end,
\* length, packet) and in Unserialize(data, length): [n, v, ok, rd]
Unserialize_parse(sch, data, length) ==
    unserializeFields(sch, data, length, 1,
        [n |-> 0, v |-> DefaultPacket(sch), ok |-> TRUE, rd |-> {}])


\* the pointer overloads Unserialize(data, length) and Unserialize(data,
\* length, packet) exist in the revision of ComPacket.hpp that has no
\* std::array overload of deserializeFromBuffer: they build for packet types
\* without an array field
Unserialize_ptr_builds(sch) == ~has_type("array", sch)

\* a variant of Unserialize(data, length, packet) that assigns the parsed
\* elements whatever the flag is
Unserialize_ptr_always_assigns(sch, data, length, elems) ==
    LET r == Unserialize_parse(sch, data, length)
    IN  [n |-> r.n, ok |-> r.ok, rd |-> r.rd, ab |-> FALSE, elems |-> r.v]

\* ComPacket::Unserialize(data, length, packet): the returned pair, the
\* packet's elements afterwards, and the positions read
Unserialize_ptr(sch, data, length, elems) ==
    CASE Unserialize_ptr_builds(sch) ->
        LET r == Unserialize_parse(sch, data, length)
        IN  [n |-> r.n, ok |-> r.ok, rd |-> r.rd, ab |-> FALSE,
             elems |-> IF r.ok THEN r.v ELSE elems]


\* a variant of Unserialize(it, end, length, packet) that decodes into the
\* packet's elements in place instead of into a temporary tuple
Unserialize_it_in_place(sch, mem, it, end, length, elems) ==
    LET maxdatalength == Len(mem)
        dist == end - it
    IN  IF length <= maxdatalength /\ length <= SizeT(dist)
        THEN LET r == unserializeFields(sch, Advance(mem, it), length, 1,
                          [n |-> 0, v |-> elems, ok |-> TRUE, rd |-> {}])
             IN  [n |-> r.n, ok |-> r.ok, rd |-> Shift(r.rd, it),
                  ab |-> dist < 0, elems |-> r.v]
        ELSE [n |-> 0, ok |-> FALSE, rd |-> {}, ab |-> TRUE, elems |-> elems]

\* ComPacket::Unserialize<maxdatalength>(it, end, length, packet); mem is the
\* array, it and end are positions in it.  ab: an assert() would have failed
Unserialize_it(sch, mem, it, end, length, elems) ==
    LET maxdatalength == Len(mem)
        dist == end - it
    IN  IF length <= maxdatalength /\ length <= SizeT(dist)
        THEN LET r == Unserialize_parse(sch, Advance(mem, it), length)
             IN  [n |-> r.n, ok |-> r.ok, rd |-> Shift(r.rd, it),
                  ab |-> dist < 0,
                  elems |-> IF r.ok THEN r.v ELSE elems]
        ELSE [n |-> 0, ok |-> FALSE, rd |-> {}, ab |-> TRUE, elems |-> elems]

(***************************************************************************)
(* Identifier matching.  A result is [matched, start, remaining, rd]:      *)
(* start is the position the returned pointer or iterator is at (-1 for    *)
(* nullptr), rd the buffer positions compared.                             *)
(***************************************************************************)
\* the loop of CheckIDMatch from i on: the i it ends at
RECURSIVE idMismatchFrom(_, _, _)
idMismatchFrom(data, idbytes, i) ==
    IF i < Len(idbytes) /\ idbytes[i + 1] = Peek(data, i)
    THEN idMismatchFrom(data, idbytes, i + 1)
    ELSE i


\* a variant of CheckIDMatch(data, datalength, idbytes) that reports the
\* whole length as remaining
CheckIDMatch_ptr_whole_length(data, datalength, idbytes) ==
    IF datalength < Len(idbytes)
    THEN [matched |-> FALSE, start |-> -1, remaining |-> 0, rd |-> {}]
    ELSE LET i == idMismatchFrom(data, idbytes, 0)
         IN  [matched   |-> i = Len(idbytes),
              start     |-> i,
              remaining |-> datalength,
              rd        |-> {j \in 0..i : j < Len(idbytes)}]

\* a variant of CheckIDMatch(data, datalength, idbytes) without the test of
\* datalength against the identifier length
CheckIDMatch_ptr_unchecked_length(data, datalength, idbytes) ==
    LET i == idMismatchFrom(data, idbytes, 0)
    IN  [matched   |-> i = Len(idbytes),
         start     |-> i,
         remaining |-> SizeT(datalength - i),
         rd        |-> {j \in 0..i : j < Len(idbytes)}]

\* ComPacket::CheckIDMatch(const uint8_t *data, datalength, idbytes)
CheckIDMatch_ptr(data, datalength, idbytes) ==
    IF datalength < Len(idbytes)
    THEN [matched |-> FALSE, start |-> -1, remaining |-> 0, rd |-> {}]
    ELSE LET i == idMismatchFrom(data, idbytes, 0)
         IN  [matched   |-> i = Len(idbytes),
              start     |-> i,
              remaining |-> SizeT(datalength - i),
              rd        |-> {j \in 0..i : j < Len(idbytes)}]

\* ComPacket::CheckIDMatch(const std::array<uint8_t, datalength> &, length, idbytes)
CheckIDMatch_array(data, length, idbytes) ==
    LET r == CheckIDMatch_ptr(data, length, idbytes)
        readbytes == SizeT(length - r.remaining)
    IN  IF length <= Len(data) /\ r.matched
        THEN [matched |-> TRUE, start |-> readbytes,
              remaining |-> r.remaining, rd |-> r.rd]
        ELSE [matched |-> FALSE, start |-> 0, remaining |-> 0,
              rd |-> IF length <= Len(data) THEN r.rd ELSE {}]

(***************************************************************************)
(* Bitfield<bitlength>: backingtype is uint8_t.                            *)
(***************************************************************************)
\* bit i of x
BitOf(x, i) == (x \div (2 ^ i)) % 2

\* a & b and a | b on the low w bits
BitAnd(a, b, w) == SumSeq([i \in 1..w |-> (2 ^ (i - 1)) * BitOf(a, i - 1) * BitOf(b, i - 1)])
BitOr(a, b, w) ==
    SumSeq([i \in 1..w |->
              (2 ^ (i - 1)) * (IF BitOf(a, i - 1) + BitOf(b, i - 1) > 0 THEN 1 ELSE 0)])

\* Bitfield::GetStorageLocationForBit
GetStorageLocationForBit(bitnumber) == bitnumber \div 8

\* Bitfield::CalculateBitMask: the shift it stores
CalculateShift(bitstart) == bitstart % 8

\* Bitfield::CalculateBitMask: the mask it returns, a uint8_t
CalculateBitMask(bitstart, length) ==
    LET shift == CalculateShift(bitstart)
    IN  SumSeq([i \in 1..8 |->
                  IF i - 1 >= shift /\ i - 1 < length + shift THEN 2 ^ (i - 1) ELSE 0])

\* the assert of Bitfield::CalculateBitMask
BitMaskAssert(bitstart, length) == ((CalculateShift(bitstart) + length) + 7) \div 8 <= 1

\* Bitfield::GetData<uint8_t>
GetData(store, bitstart, datalength) ==
    LET rawdata == store[GetStorageLocationForBit(bitstart) + 1]
        mask    == CalculateBitMask(bitstart, datalength)
        shift   == CalculateShift(bitstart)
    IN  BitAnd(rawdata, mask, 8) \div (2 ^ shift)


\* a variant of WriteData that does not clear the sub-field before it sets it
WriteData_uncleared(store, bitstart, datalength, data) ==
    LET mask       == CalculateBitMask(bitstart, datalength)
        shift      == CalculateShift(bitstart)
        maskedData == BitAnd(data, mask \div (2 ^ shift), 8)
        loc        == GetStorageLocationForBit(bitstart) + 1
    IN  [store EXCEPT ![loc] = BitOr(store[loc], (maskedData * (2 ^ shift)) % 256, 8)]


\* a variant of WriteData that clears the whole backing byte before it sets
\* the sub-field
WriteData_clears_byte(store, bitstart, datalength, data) ==
    LET mask       == CalculateBitMask(bitstart, datalength)
        shift      == CalculateShift(bitstart)
        maskedData == BitAnd(data, mask \div (2 ^ shift), 8)
        loc        == GetStorageLocationForBit(bitstart) + 1
    IN  [store EXCEPT ![loc] = (maskedData * (2 ^ shift)) % 256]

\* Bitfield::WriteData<uint8_t>: the storage afterwards
WriteData(store, bitstart, datalength, data) ==
    LET mask       == CalculateBitMask(bitstart, datalength)
        shift      == CalculateShift(bitstart)
        maskedData == BitAnd(data, mask \div (2 ^ shift), 8)
        loc        == GetStorageLocationForBit(bitstart) + 1
        cleared    == BitAnd(store[loc], 255 - mask, 8)
    IN  [store EXCEPT ![loc] = BitOr(cleared, (maskedData * (2 ^ shift)) % 256, 8)]

(***************************************************************************)
(* The packet types and values the model instantiates the library with.    *)
(***************************************************************************)
\* std::array<uint8_t, 2> id = {2,3}
TestId == <<2, 3>>

\* the ComPacket instantiations: a mixed packet (scalar, bounded string,
\* bitfield), a packet ending in a bounded string, a packet with a
\* std::string, and a packet of an array and a two-byte bitfield
Schemas ==
    { <<Scalar(1), EtlString(2), Bits(1)>>,
      <<Scalar(2), EtlString(1)>>,
      <<StdString, Scalar(1)>>,
      <<Array(2, Scalar(1)), Bits(9)>> }

\* the sub-fields (offset, length) a packet's bitfield type declares
DeclaredSubFields(bitlength) ==
    IF bitlength = 1 THEN {<<0, 1>>} ELSE {<<0, 5>>, <<bitlength - 1, 1>>}

\* the values a caller assigns to a field through its accessor
RECURSIVE FieldValues(_)
FieldValues(d) ==
    CASE d.k = "scalar" -> SeqsOfLen(ByteVals, d.n)
      [] d.k = "string" -> SeqsUpTo(ByteVals \ {0}, MaxStr)
      [] d.k = "etl"    -> SeqsUpTo(ByteVals \ {0}, d.n)
      [] d.k = "array"  -> SeqsOfLen(FieldValues(d.e[1]), d.n)

\* the capacity the largest encoding of the packet needs after the identifier
PayloadLimit(sch, elems) ==
    IF SupportsMaxSize(sch) THEN GetMaxSize(sch) ELSE GetSerializedLength(sch, elems)

\* an uninitialised buffer of n bytes: every byte holds the same leftover value
Filled(n, fill) == [i \in 1..n |-> fill]

None == [op |-> "none"]

(***************************************************************************)
(* Spec: the program of Test.cpp.  It fills a packet, serializes it behind *)
(* the identifier, matches the identifier and decodes into a second        *)
(* packet.  The other Serialize overloads are called on the same packets.  *)
(***************************************************************************)
Init ==
    /\ schema \in Schemas
    /\ packet = DefaultPacket(schema)
    /\ target = DefaultPacket(schema)
    /\ id = TestId
    /\ buffer = <<>>
    /\ storage = <<>>
    /\ pc = "build"
    /\ ser = None
    /\ match = None
    /\ uns = None
    /\ bit = None


\* a variant of the assignment through an accessor in which the fields of a
\* packet share their storage: the other fields lose what they held
Assign_shared(i, v) ==
    /\ pc = "build"
    /\ packet' = [j \in 1..Len(packet) |->
                    IF j = i THEN v ELSE DefaultValue(schema[j])]
    /\ UNCHANGED <<schema, target, id, buffer, storage, pc, ser, match, uns, bit>>

\* mixed.Testfield1 = -10; mixed.Testfield2 = teststring; mixed.TestArray.fill(5)
Assign(i, v) ==
    /\ pc = "build"
    /\ packet' = [packet EXCEPT ![i] = v]
    /\ UNCHANGED <<schema, target, id, buffer, storage, pc, ser, match, uns, bit>>

\* mixed.Testfield3.WriteTestBit(1)
AssignBits(i, sf, data) ==
    /\ pc = "build"
    /\ packet' = [packet EXCEPT ![i] = WriteData(@, sf[1], sf[2], data)]
    /\ UNCHANGED <<schema, target, id, buffer, storage, pc, ser, match, uns, bit>>

\* what a Serialize call did: the overload, the capacity offered, the buffer
\* before, the value returned and the positions written
SerRecord(op, cap, before, r) ==
    [op |-> op, cap |-> cap, before |-> before, ret |-> r.ret, wr |-> r.wr]

\* a call ends the program when an assert fails in a build with assert()
\* enabled (abort = TRUE), and goes on as compiled with NDEBUG otherwise
Aborts(r, abort) == r.ab /\ abort

\* size_t packageLength = mixed.Serialize(dataarray, id)
SerializeArray(datalength, fill, abort) ==
    /\ pc = "build"
    /\ Serialize_array_builds(schema, datalength, Len(id))
    /\ LET before == Filled(datalength, fill)
           r == Serialize_array(schema, packet, before, id)
       IN  IF Aborts(r, abort)
           THEN /\ pc' = "aborted"
                /\ UNCHANGED <<buffer, ser>>
           ELSE /\ pc' = "sent"
                /\ buffer' = r.mem
                /\ ser' = SerRecord("array", datalength, before, r)
    /\ UNCHANGED <<schema, packet, target, id, storage, match, uns, bit>>

\* Serialize(etl::ivector<uint8_t> &buffer, idbytes) on a vector of content
\* before and capacity maxsize
SerializeIvector(maxsize, before, abort) ==
    /\ pc = "build"
    /\ LET r == Serialize_ivector(schema, packet, before, maxsize, id)
       IN  IF Aborts(r, abort)
           THEN /\ pc' = "aborted"
                /\ UNCHANGED <<buffer, ser>>
           ELSE /\ pc' = "stored"
                /\ buffer' = r.mem
                /\ ser' = SerRecord("ivector", maxsize, before, r)
    /\ UNCHANGED <<schema, packet, target, id, storage, match, uns, bit>>

\* Serialize(vector<uint8_t> &buffer, idbytes) on a vector of content before
SerializeVector(before) ==
    /\ pc = "build"
    /\ LET r == Serialize_vector(schema, packet, before, id)
       IN  /\ pc' = "stored"
           /\ buffer' = r.mem
           /\ ser' = SerRecord("vector", Len(r.mem), before, r)
    /\ UNCHANGED <<schema, packet, target, id, storage, match, uns, bit>>

\* Serialize(begin, end) on a buffer of end - begin bytes, begin at its start
SerializeRange(length, fill) ==
    /\ pc = "build"
    /\ LET before == Filled(length, fill)
           r == Serialize_range(schema, packet, before, 0, length)
       IN  /\ pc' = "stored"
           /\ buffer' = r.mem
           /\ ser' = SerRecord("range", length, before, r)
    /\ UNCHANGED <<schema, packet, target, id, storage, match, uns, bit>>

\* auto [valid, packetStart, datalength] =
\*     MixedDataMessage::CheckIDMatch(dataarray, packageLength, id)
CheckSent ==
    /\ pc = "sent"
    /\ match' = CheckIDMatch_array(buffer, ser.ret, id)
    /\ pc' = "matched"
    /\ UNCHANGED <<schema, packet, target, id, buffer, storage, ser, uns, bit>>

\* what an Unserialize call did: the overload, the length stated, the target
\* before, the pair returned and the positions read
UnsRecord(op, data, length, before, r) ==
    [op |-> op, d |-> schema, data |-> data, length |-> length,
     before |-> before, n |-> r.n, ok |-> r.ok, rd |-> r.rd]

\* assert(valid); deserializeTest.Unserialize<dataarray.max_size()>(
\*     packetStart, dataarray.end(), datalength)
UnserializeSent(abort) ==
    /\ pc = "matched"
    /\ match.matched
    /\ LET r == Unserialize_it(schema, buffer, match.start, Len(buffer),
                               match.remaining, target)
       IN  IF Aborts(r, abort)
           THEN /\ pc' = "aborted"
                /\ UNCHANGED <<target, uns>>
           ELSE /\ pc' = "done"
                /\ target' = r.elems
                /\ uns' = UnsRecord("it", Advance(buffer, match.start),
                                    match.remaining, target, r)
    /\ UNCHANGED <<schema, packet, id, buffer, storage, ser, match, bit>>

Next ==
    \/ \E i \in 1..Len(schema) :
          /\ schema[i].k # "bits"
          /\ \E v \in FieldValues(schema[i]) : Assign(i, v)
    \/ \E i \in 1..Len(schema) :
          /\ schema[i].k = "bits"
          /\ \E sf \in DeclaredSubFields(schema[i].n), data \in ByteVals :
                AssignBits(i, sf, data)
    \/ \E datalength \in 0..(Len(id) + PayloadLimit(schema, packet) + Slack),
          fill \in ByteVals, abort \in BOOLEAN :
          SerializeArray(datalength, fill, abort)
    \/ \E maxsize \in 0..(Len(id) + PayloadLimit(schema, packet) + Slack),
          abort \in BOOLEAN :
          \E n \in {0, maxsize} : SerializeIvector(maxsize, Filled(n, 1), abort)
    \/ \E n \in {0, Len(id) + PayloadLimit(schema, packet) + Slack} :
          SerializeVector(Filled(n, 1))
    \/ \E length \in 0..(PayloadLimit(schema, packet) + Slack), fill \in ByteVals :
          SerializeRange(length, fill)
    \/ CheckSent
    \/ \E abort \in BOOLEAN : UnserializeSent(abort)

Spec == Init /\ [][Next]_vars

(***************************************************************************)
(* SpecDecode: a receiver that decodes whatever the channel delivers into  *)
(* the same packet, call after call.                                       *)
(***************************************************************************)
\* the byte values the channel delivers: the terminator and a character
WindowVals == {0, 1}

\* the longest window the channel delivers for a packet type: longer than
\* the largest packet of the type
DecodeLimit(sch) ==
    IF SupportsMaxSize(sch) THEN GetMaxSize(sch) + Slack
    ELSE GetSerializedLength(sch, DefaultPacket(sch)) + MaxStr

\* the receiver's note of what the latest decode that returned valid = true
\* parsed (any: one did), or of the packet as constructed
Decoded(v, any) == [op |-> "decoded", v |-> v, any |-> any]

InitDecode ==
    /\ schema \in Schemas
    /\ packet = DefaultPacket(schema)
    /\ target = DefaultPacket(schema)
    /\ id = TestId
    /\ buffer = <<>>
    /\ storage = <<>>
    /\ pc = "decode"
    /\ ser = Decoded(DefaultPacket(schema), FALSE)
    /\ match = None
    /\ uns = None
    /\ bit = None

\* MixedDataMessage::Unserialize<N>(falseData, length, deserializeTest) and
\* Unserialize<N>(it, data.end(), length, packet): mem is the array
DecodeIt(mem, it, length, abort) ==
    /\ pc = "decode"
    /\ LET r == Unserialize_it(schema, mem, it, Len(mem), length, target)
       IN  IF Aborts(r, abort)
           THEN /\ pc' = "aborted"
                /\ UNCHANGED <<target, buffer, uns, ser>>
           ELSE /\ pc' = "decoded"
                /\ target' = r.elems
                /\ buffer' = mem
                /\ uns' = UnsRecord("it", Advance(mem, it), length, target, r)
                /\ ser' = IF r.ok
                          THEN Decoded(Unserialize_parse(schema, Advance(mem, it),
                                                         length).v, TRUE)
                          ELSE ser
    /\ UNCHANGED <<schema, packet, id, storage, match, bit>>

\* MixedDataMessage::Unserialize(falseData, sizeof(falseData), deserializeTest):
\* the pointer overload, data holding length bytes
DecodePtr(data, length) ==
    /\ pc = "decode"
    /\ Unserialize_ptr_builds(schema)
    /\ LET r == Unserialize_ptr(schema, data, length, target)
       IN  /\ pc' = "decoded"
           /\ target' = r.elems
           /\ buffer' = data
           /\ uns' = UnsRecord("ptr", data, length, target, r)
           /\ ser' = IF r.ok
                     THEN Decoded(Unserialize_parse(schema, data, length).v, TRUE)
                     ELSE ser
    /\ UNCHANGED <<schema, packet, id, storage, match, bit>>

\* the caller drops the returned tuple and its buffer and receives again
ReceiveNext ==
    /\ pc = "decoded"
    /\ pc' = "decode"
    /\ buffer' = <<>>
    /\ uns' = None
    /\ UNCHANGED <<schema, packet, target, id, storage, ser, match, bit>>

NextDecode ==
    \/ \E win \in SeqsUpTo(WindowVals, DecodeLimit(schema)) :
          DecodeIt(win \o Filled(DecodeLimit(schema) - Len(win), 1), 0, Len(win), FALSE)
    \/ \E it \in 0..1, abort \in BOOLEAN :
          \E length \in (DecodeLimit(schema) - it + 1)..(DecodeLimit(schema) + 1) :
             DecodeIt(Filled(DecodeLimit(schema), 1), it, length, abort)
    \/ \E win \in SeqsUpTo(WindowVals, DecodeLimit(schema)) : DecodePtr(win, Len(win))
    \/ ReceiveNext

SpecDecode == InitDecode /\ [][NextDecode]_vars

(***************************************************************************)
(* SpecField: the per-field writers and readers of namespace utils and the *)
(* tuple-returning Unserialize, each called on its own with any arguments. *)
(***************************************************************************)
\* largest end bound / longest memory the direct calls are given
MaxEnd == 3
MaxWin == 3

\* the field types the direct calls are made on
FieldTypes ==
    { Scalar(1), Scalar(2), StdString, EtlString(2), Bits(1), Bits(9),
      Array(2, Scalar(1)), Array(2, StdString) }

\* the values a field of type d can hold
ElementValues(d) ==
    IF d.k = "bits" THEN SeqsOfLen(ByteVals, CalculateArrayLength(BYTE_LENGTH(d.n)))
    ELSE FieldValues(d)

\* a value of type d with every byte set to 1
RECURSIVE SetValue(_)
SetValue(d) ==
    CASE d.k = "scalar" -> Filled(d.n, 1)
      [] d.k = "string" -> Filled(MaxStr, 1)
      [] d.k = "etl"    -> Filled(d.n, 1)
      [] d.k = "bits"   -> Filled(CalculateArrayLength(BYTE_LENGTH(d.n)), 1)
      [] d.k = "array"  -> [i \in 1..d.n |-> SetValue(d.e[1])]

\* what the element a reader is given holds before the call: the value its
\* constructor leaves, or one set earlier
PriorValues(d) == {DefaultValue(d), SetValue(d)}

InitField ==
    /\ schema = <<>>
    /\ packet = <<>>
    /\ target = <<>>
    /\ id = TestId
    /\ buffer = <<>>
    /\ storage = <<>>
    /\ pc = "field"
    /\ ser = None
    /\ match = None
    /\ uns = None
    /\ bit = None

\* utils::serializeToBuffer(data, it, end) on a buffer that ends at end
WriteField(d, v, it, end, fill, abort) ==
    /\ pc = "field"
    /\ LET before == Filled(end, fill)
           w == serializeToBuffer(d, v, Writer(before, it), end)
       IN  IF Aborts(w, abort)
           THEN /\ pc' = "aborted"
                /\ UNCHANGED <<buffer, ser>>
           ELSE /\ pc' = "returned"
                /\ buffer' = w.mem
                /\ ser' = [op |-> "field", d |-> d, v |-> v, it |-> it,
                           end |-> end, before |-> before, cur |-> w.it,
                           wr |-> w.wr]
    /\ UNCHANGED <<schema, packet, target, id, storage, match, uns, bit>>

\* utils::deserializeFromBuffer(data, length, element, valid)
ReadField(d, data, length, element, valid) ==
    /\ pc = "field"
    /\ LET r == deserializeFromBuffer(d, data, length, element, valid)
       IN  uns' = [op |-> "field", d |-> d, data |-> data, length |-> length,
                   before |-> element, valid |-> valid,
                   n |-> r.n, v |-> r.v, ok |-> r.ok, rd |-> r.rd]
    /\ pc' = "returned"
    /\ UNCHANGED <<schema, packet, target, id, buffer, storage, ser, match, bit>>

\* ComPacket<T...>::Unserialize(data, length), returning the parsed tuple
ParsePacket(sch, data, length) ==
    /\ pc = "field"
    /\ Unserialize_ptr_builds(sch)
    /\ LET r == Unserialize_parse(sch, data, length)
       IN  uns' = [op |-> "parse", d |-> sch, data |-> data, length |-> length,
                   before |-> DefaultPacket(sch), valid |-> TRUE,
                   n |-> r.n, v |-> r.v, ok |-> r.ok, rd |-> r.rd]
    /\ pc' = "returned"
    /\ UNCHANGED <<schema, packet, target, id, buffer, storage, ser, match, bit>>

\* the caller drops what the call returned and makes the next call
NextCall ==
    /\ pc = "returned"
    /\ pc' = "field"
    /\ buffer' = <<>>
    /\ ser' = None
    /\ uns' = None
    /\ UNCHANGED <<schema, packet, target, id, storage, match, bit>>

NextField ==
    \/ \E d \in FieldTypes, end \in 0..MaxEnd, abort \in BOOLEAN :
          \E v \in ElementValues(d), it \in 0..end :
             WriteField(d, v, it, end, 1, abort)
    \/ \E d \in FieldTypes, data \in SeqsUpTo(ByteVals, MaxWin), valid \in BOOLEAN :
          \E length \in 0..Len(data), element \in PriorValues(d) :
             ReadField(d, data, length, element, valid)
    \/ \E sch \in Schemas, data \in SeqsUpTo(ByteVals, MaxWin) :
          \E length \in 0..Len(data) : ParsePacket(sch, data, length)
    \/ NextCall

SpecField == InitField /\ [][NextField]_vars

(***************************************************************************)
(* SpecId: a TagedComPacket's identifier and the matching of received      *)
(* buffers against it.                                                     *)
(***************************************************************************)
\* idLength of the tagged packet: sizeof(id) of Test.cpp
IdLen == 2
\* longest buffer handed to CheckIDMatch
MaxIdBuf == 3

\* marks an identifier index no SetID call has reached
NotSet == -1

\* a variant of SetID that clears the identifier bytes its source does not
\* reach
SetID_clears_rest(idbytes, src) ==
    [i \in 1..Len(idbytes) |->
       IF i - 1 < Min2(Len(src), Len(idbytes)) THEN src[i] ELSE 0]

\* TagedComPacket::SetID: the identifier afterwards
SetID(idbytes, src) ==
    [i \in 1..Len(idbytes) |->
       IF i - 1 < Min2(Len(src), Len(idbytes)) THEN src[i] ELSE idbytes[i]]

\* the caller's note of the identifier's history: how the packet was
\* constructed, the size of the source of the latest SetID, and for every
\* index of the identifier the byte the latest source that reached it held
IdNote(ctor, m, last) == [op |-> "setid", ctor |-> ctor, m |-> m, last |-> last]

\* TagedComPacket(): id.fill(0); or TagedComPacket(std::initializer_list):
\* SetID(list) on an id array nothing has filled, whose bytes beyond the
\* list are indeterminate (memory holds any byte values there)
InitId ==
    /\ schema = <<>>
    /\ packet = <<>>
    /\ target = <<>>
    /\ \/ /\ id = [i \in 1..IdLen |-> 0]
          /\ ser = IdNote("default", 0, [i \in 1..IdLen |-> NotSet])
       \/ \E src \in SeqsUpTo(ByteVals, IdLen + 1), memory \in SeqsOfLen(ByteVals, IdLen) :
             /\ id = SetID(memory, src)
             /\ ser = IdNote("list", Len(src),
                             [i \in 1..IdLen |->
                                IF i <= Len(src) THEN src[i] ELSE NotSet])
    /\ buffer = <<>>
    /\ storage = <<>>
    /\ pc = "id"
    /\ match = None
    /\ uns = None
    /\ bit = None


\* packet.SetID(src); ser keeps the size of the source of the latest call
\* and, for every index of the identifier, the byte the latest source that
\* reached the index held there
CallSetID(src) ==
    /\ pc = "id"
    /\ id' = SetID(id, src)
    /\ ser' = IdNote(ser.ctor, Len(src),
                     [i \in 1..IdLen |->
                        IF i <= Len(src) THEN src[i] ELSE ser.last[i]])
    /\ UNCHANGED <<schema, packet, target, buffer, storage, pc, match, uns, bit>>

\* what a CheckIDMatch call returned, with the buffer and length it was given
MatchRecord(op, data, length, r) ==
    [op |-> op, data |-> data, length |-> length, matched |-> r.matched,
     start |-> r.start, remaining |-> r.remaining, rd |-> r.rd]

\* CheckIDMatch(data.data(), length, id): data holds at least length bytes
CheckPtr(data, length) ==
    /\ pc = "id"
    /\ pc' = "checked"
    /\ buffer' = data
    /\ match' = MatchRecord("ptr", data, length, CheckIDMatch_ptr(data, length, id))
    /\ UNCHANGED <<schema, packet, target, id, storage, ser, uns, bit>>

\* TagedComPacket::CheckIDMatch(data, length) and
\* ComPacket::CheckIDMatch(data, length, idbytes) on a std::array;
\* assert(length <= datalength)
CheckArray(data, length, abort) ==
    /\ pc = "id"
    /\ IF length > Len(data) /\ abort
       THEN /\ pc' = "aborted"
            /\ UNCHANGED <<buffer, match>>
       ELSE /\ pc' = "checked"
            /\ buffer' = data
            /\ match' = MatchRecord("array", data, length,
                                    CheckIDMatch_array(data, length, id))
    /\ UNCHANGED <<schema, packet, target, id, storage, ser, uns, bit>>

\* the caller drops the returned tuple and its buffer
NextBuffer ==
    /\ pc = "checked"
    /\ pc' = "id"
    /\ buffer' = <<>>
    /\ match' = None
    /\ UNCHANGED <<schema, packet, target, id, storage, ser, uns, bit>>

NextId ==
    \/ \E src \in SeqsUpTo(ByteVals, IdLen + 1) : CallSetID(src)
    \/ \E data \in SeqsUpTo(ByteVals, MaxIdBuf) :
          \E length \in 0..Len(data) : CheckPtr(data, length)
    \/ \E data \in SeqsUpTo(ByteVals, MaxIdBuf), abort \in BOOLEAN :
          \E length \in 0..(Len(data) + 1) : CheckArray(data, length, abort)
    \/ NextBuffer

SpecId == InitId /\ [][NextId]_vars

(***************************************************************************)
(* SpecBits: the TestBitfield of Test.cpp, a Bitfield<1>, read and written *)
(* at every sub-field of its backing storage.                              *)
(***************************************************************************)
\* struct TestBitfield : public Bitfield<1>
BitLen == 1

\* the bits the backing storage of the bitfield holds
StorageBits == 8 * CalculateArrayLength(BYTE_LENGTH(BitLen))

\* the values written: all-zero, all-one, and the values of Test.cpp (1, 5, 4)
DataVals == {0, 1, 4, 5, 255}

\* Bitfield(): storage[] = {0}
InitBits ==
    /\ schema = <<Bits(BitLen)>>
    /\ packet = <<>>
    /\ target = <<>>
    /\ id = TestId
    /\ buffer = <<>>
    /\ storage = DefaultValue(Bits(BitLen))
    /\ pc = "bits"
    /\ ser = None
    /\ match = None
    /\ uns = None
    /\ bit = None

\* bitfield.WriteData(bitstart, datalength, data)
CallWriteData(bitstart, datalength, data, abort) ==
    /\ pc = "bits"
    /\ IF ~BitMaskAssert(bitstart, datalength) /\ abort
       THEN /\ pc' = "aborted"
            /\ UNCHANGED <<storage, bit>>
       ELSE /\ pc' = "accessed"
            /\ storage' = WriteData(storage, bitstart, datalength, data)
            /\ bit' = [op |-> "write", bitstart |-> bitstart,
                       datalength |-> datalength, data |-> data, before |-> storage]
    /\ UNCHANGED <<schema, packet, target, id, buffer, ser, match, uns>>

\* bitfield.GetData<uint8_t>(bitstart, datalength)
CallGetData(bitstart, datalength, abort) ==
    /\ pc = "bits"
    /\ IF ~BitMaskAssert(bitstart, datalength) /\ abort
       THEN /\ pc' = "aborted"
            /\ UNCHANGED bit
       ELSE /\ pc' = "accessed"
            /\ bit' = [op |-> "read", bitstart |-> bitstart,
                       datalength |-> datalength,
                       data |-> GetData(storage, bitstart, datalength),
                       before |-> storage]
    /\ UNCHANGED <<schema, packet, target, id, buffer, storage, ser, match, uns>>

\* the caller drops the value returned and makes the next access
NextAccess ==
    /\ pc = "accessed"
    /\ pc' = "bits"
    /\ bit' = None
    /\ UNCHANGED <<schema, packet, target, id, buffer, storage, ser, match, uns>>

NextBits ==
    \/ \E bitstart \in 0..(StorageBits - 1), datalength \in 0..8, data \in DataVals,
          abort \in BOOLEAN : CallWriteData(bitstart, datalength, data, abort)
    \/ \E bitstart \in 0..(StorageBits - 1), datalength \in 0..8, abort \in BOOLEAN :
          CallGetData(bitstart, datalength, abort)
    \/ NextAccess

SpecBits == InitBits /\ [][NextBits]_vars


(***************************************************************************)
(* SpecLarge: the LargeBitField of Test.cpp, a Bitfield<70>, written and   *)
(* read through its sub-fields.  bit.last is the caller's note of the      *)
(* value it last wrote to each declared sub-field (-1: never written).     *)
(***************************************************************************)
\* struct LargeBitField : public Bitfield<70>
LargeBitLen == 70

\* TestBit1 (offset 0, length 5) and TestBit2 (offset 13, length 3)
LargeSubFields == {<<0, 5>>, <<13, 3>>}

\* further sub-fields a derived class can declare next to them: the rest of
\* byte 0, the rest of byte 1, and one that runs over the end of byte 0
OtherSubFields == {<<5, 3>>, <<8, 5>>, <<6, 5>>}

\* the values the accessors are called with
LargeVals == {0, 1, 5, 255}

NoAccess(last) == [op |-> "none", last |-> last]

InitLarge ==
    /\ schema = <<Bits(LargeBitLen)>>
    /\ packet = <<>>
    /\ target = <<>>
    /\ id = TestId
    /\ buffer = <<>>
    /\ storage = DefaultValue(Bits(LargeBitLen))
    /\ pc = "large"
    /\ ser = None
    /\ match = None
    /\ uns = None
    /\ bit = NoAccess([sf \in LargeSubFields |-> -1])

\* largebitfield.WriteTestBit1(data), WriteTestBit2(data) and the like
WriteLarge(sf, data, abort) ==
    /\ pc = "large"
    /\ IF ~BitMaskAssert(sf[1], sf[2]) /\ abort
       THEN /\ pc' = "aborted"
            /\ UNCHANGED <<storage, bit>>
       ELSE /\ pc' = "large_accessed"
            /\ storage' = WriteData(storage, sf[1], sf[2], data)
            /\ bit' = [op |-> "write", bitstart |-> sf[1], datalength |-> sf[2],
                       data |-> data, before |-> storage,
                       last |-> IF sf \in LargeSubFields
                                THEN [bit.last EXCEPT ![sf] = data % (2 ^ sf[2])]
                                ELSE bit.last]
    /\ UNCHANGED <<schema, packet, target, id, buffer, ser, match, uns>>

\* largebitfield.ReadTestBit1(), ReadTestBit2() and the like
ReadLarge(sf, abort) ==
    /\ pc = "large"
    /\ IF ~BitMaskAssert(sf[1], sf[2]) /\ abort
       THEN /\ pc' = "aborted"
            /\ UNCHANGED bit
       ELSE /\ pc' = "large_accessed"
            /\ bit' = [op |-> "read", bitstart |-> sf[1], datalength |-> sf[2],
                       data |-> GetData(storage, sf[1], sf[2]),
                       before |-> storage, last |-> bit.last]
    /\ UNCHANGED <<schema, packet, target, id, buffer, storage, ser, match, uns>>

\* the caller drops the value returned, keeps its note, and goes on
NextLargeAccess ==
    /\ pc = "large_accessed"
    /\ pc' = "large"
    /\ bit' = NoAccess(bit.last)
    /\ UNCHANGED <<schema, packet, target, id, buffer, storage, ser, match, uns>>

NextLarge ==
    \/ \E sf \in LargeSubFields \cup OtherSubFields, data \in LargeVals,
          abort \in BOOLEAN : WriteLarge(sf, data, abort)
    \/ \E sf \in LargeSubFields \cup OtherSubFields, abort \in BOOLEAN :
          ReadLarge(sf, abort)
    \/ NextLargeAccess

SpecLarge == InitLarge /\ [][NextLarge]_vars


(***************************************************************************)
(* SpecSchema: the queries a ComPacket<T...> instantiation answers about   *)
(* its own size, for packet types of one or two fields.                    *)
(***************************************************************************)
\* the field types of the packet types queried: those of the direct calls
\* and an array of bounded strings, whose max_size is defined although its
\* serialized length does not build
SchemaFieldTypes == FieldTypes \cup {Array(2, EtlString(1))}

\* ComPacket<T>, ComPacket<T, U>
SchemaTypes ==
    {<<d>> : d \in SchemaFieldTypes}
       \cup {<<d, e>> : d \in SchemaFieldTypes, e \in SchemaFieldTypes}

\* utils::max_size<T>::value is defined: not for std::string (enable_if has
\* no type), and for an array only if it is for the element type
RECURSIVE max_size_builds(_)
max_size_builds(d) ==
    CASE d.k = "string" -> FALSE
      [] d.k = "array"  -> max_size_builds(d.e[1])
      [] OTHER          -> TRUE

InitSchema ==
    /\ schema \in SchemaTypes
    /\ packet = DefaultPacket(schema)
    /\ target = DefaultPacket(schema)
    /\ id = TestId
    /\ buffer = <<>>
    /\ storage = <<>>
    /\ pc = "schema"
    /\ ser = None
    /\ match = None
    /\ uns = None
    /\ bit = None

\* ComPacket<T...>::SupportsMaxSize
QuerySupportsMaxSize ==
    /\ pc = "schema"
    /\ pc' = "queried"
    /\ ser' = [op |-> "supports", ret |-> SupportsMaxSize(schema)]
    /\ UNCHANGED <<schema, packet, target, id, buffer, storage, match, uns, bit>>

\* ComPacket<T...>::GetMaxSize(), where it compiles
QueryGetMaxSize ==
    /\ pc = "schema"
    /\ SupportsMaxSize(schema)
    /\ \A i \in 1..Len(schema) : max_size_builds(schema[i])
    /\ pc' = "queried"
    /\ ser' = [op |-> "maxsize", ret |-> GetMaxSize(schema)]
    /\ UNCHANGED <<schema, packet, target, id, buffer, storage, match, uns, bit>>

\* packet.GetSerializedLength(), where it compiles
QueryGetSerializedLength ==
    /\ pc = "schema"
    /\ \A i \in 1..Len(schema) : array_builds(schema[i])
    /\ pc' = "queried"
    /\ ser' = [op |-> "length", ret |-> GetSerializedLength(schema, packet)]
    /\ UNCHANGED <<schema, packet, target, id, buffer, storage, match, uns, bit>>

\* the caller drops the answer
NextQuery ==
    /\ pc = "queried"
    /\ pc' = "schema"
    /\ ser' = None
    /\ UNCHANGED <<schema, packet, target, id, buffer, storage, match, uns, bit>>

NextSchema ==
    \/ QuerySupportsMaxSize
    \/ QueryGetMaxSize
    \/ QueryGetSerializedLength
    \/ NextQuery

SpecSchema == InitSchema /\ [][NextSchema]_vars

(***************************************************************************)
(* Properties.                                                             *)
(***************************************************************************)
\* the positions of a Serialize call's writes that lie behind the identifier
PayloadWritten == ser.wr \ (0..(Len(id) - 1))

\* C1 (round trip): a packet serialized with Serialize(array, id) into an
\* array that holds the identifier and the whole packet, stripped of the
\* identifier with CheckIDMatch and decoded with Unserialize into a fresh
\* packet, comes back valid, equal to the original in every field, and the
\* decode consumes as many bytes as payload bytes were written.
C1_RoundTrip ==
    (/\ pc = "done"
     /\ ser.cap >= Len(id) + GetSerializedLength(schema, packet))
    => /\ uns.ok
       /\ target = packet
       /\ uns.n = Cardinality(PayloadWritten)
       /\ uns.n = ser.ret - Len(id)

\* a round trip of a packet with a full bounded string or a non-empty
\* std::string and a changed last field
C1_Witness ==
    /\ pc = "done"
    /\ ser.cap >= Len(id) + GetSerializedLength(schema, packet)
    /\ uns.ok
    /\ \E i \in 1..Len(schema) :
          /\ schema[i].k \in {"etl", "string"}
          /\ Len(packet[i]) = 2
    /\ packet[Len(schema)] # DefaultPacket(schema)[Len(schema)]
    /\ target = packet

\* C2 (scratch then commit): whenever Unserialize(..., packet) returns
\* valid = false, the early return for a length beyond the array or beyond
\* distance(it, end) included, every field of the target packet is what it
\* was before the call.
C2_InvalidLeavesTarget ==
    (pc = "decoded" /\ ~uns.ok) => target = uns.before

\* an invalid decode, of a window that is not empty, into a packet that an
\* earlier decode had filled
C2_Witness ==
    /\ pc = "decoded"
    /\ ~uns.ok
    /\ uns.n > 0
    /\ uns.before # DefaultPacket(schema)
    /\ target = uns.before

\* the least number of bytes a packet of the schema serializes to: the fixed
\* size of each scalar, bitfield and array, and one byte for each string
MinSerializedLength(sch) == GetSerializedLength(sch, DefaultPacket(sch))

\* C3 (truncated buffer): for every schema and every window shorter than the
\* schema's minimum serialized length, Unserialize returns valid = false and
\* the target packet keeps the field values it had.
C3_TruncatedRejected ==
    (pc = "decoded" /\ uns.length < MinSerializedLength(schema))
    => (~uns.ok /\ target = uns.before)

\* C4 (writers stay in bounds): a per-field writer called with a cursor at
\* or before the end bound, the capacity check of Serialize not made, writes
\* only positions in [cursor, end) and leaves the cursor at or before end.
C4_WriterWithinBounds ==
    (pc = "returned" /\ ser # None /\ ser.it <= ser.end)
    => /\ ser.wr \subseteq ser.it..(ser.end - 1)
       /\ ser.cur <= ser.end

\* C5 (readers stay in their window): a per-field reader, or the field loop
\* of Unserialize, given any bytes and any length, 0 included, reads only
\* positions below the length of the window it was given.
C5_ReaderWithinWindow ==
    (pc = "returned" /\ uns # None) => uns.rd \subseteq 0..(uns.length - 1)

\* a string read that ends at the last byte of its window, no terminator found
C5_Witness ==
    /\ pc = "returned"
    /\ uns # None
    /\ uns.d.k \in {"string", "etl"}
    /\ uns.length > 0
    /\ uns.length < Len(uns.data)
    /\ uns.n = uns.length
    /\ (uns.length - 1) \in uns.rd

\* the bytes the packet needs in the buffer of the last Serialize call, the
\* identifier counted for the overloads that write it
NeededCapacity ==
    GetSerializedLength(schema, packet) + (IF ser.op = "range" THEN 0 ELSE Len(id))

\* C6 (capacity violation at encode): whenever the buffer offers fewer bytes
\* than the packet needs, the identifier counted for the identifier-prefixed
\* overloads, Serialize returns 0 and writes nothing into the buffer, for
\* every Serialize overload.
C6_TooSmallWritesNothing ==
    (ser # None /\ ser.cap < NeededCapacity)
    => /\ ser.ret = 0
       /\ ser.wr = {}
       /\ buffer = ser.before

\* C7 (identifier-prefixed Serialize): given the capacity the overload asks
\* for, Serialize(buffer, id) writes the identifier at [0, IdLen), then the
\* payload from IdLen on, and returns IdLen plus the number of payload bytes
\* written, for an array, an ivector and a vector alike.
C7_IdThenPayload ==
    (/\ ser # None
     /\ ser.op \in {"array", "ivector", "vector"}
     /\ ser.cap >= Len(id) + PayloadLimit(schema, packet))
    => /\ SubSeq(buffer, 1, Len(id)) = id
       /\ PayloadWritten =
             Len(id)..(Len(id) + GetSerializedLength(schema, packet) - 1)
       /\ ser.ret = Len(id) + Cardinality(PayloadWritten)

\* the buffer of the last CheckIDMatch call starts with the identifier
StartsWithId ==
    /\ Len(match.data) >= Len(id)
    /\ SubSeq(match.data, 1, Len(id)) = id

\* C8 (full match): when length >= IdLen, the buffer holds length bytes and
\* its first IdLen bytes equal the identifier, CheckIDMatch returns matched =
\* true, the payload start at index IdLen and remaining = length - IdLen.
C8_FullMatch ==
    (/\ pc = "checked"
     /\ match.length >= Len(id)
     /\ match.length <= Len(match.data)
     /\ StartsWithId)
    => /\ match.matched
       /\ match.start = Len(id)
       /\ match.remaining = match.length - Len(id)

\* a match of the array overload against an identifier that SetID has set,
\* with payload bytes behind it
C8_Witness ==
    /\ pc = "checked"
    /\ match.op = "array"
    /\ id = <<2, 1>>
    /\ match.length = 3
    /\ StartsWithId
    /\ match.matched
    /\ match.remaining = 1

\* C9 (rejection): if length < IdLen, or one of the first IdLen bytes of the
\* buffer differs from the identifier, CheckIDMatch returns matched = false;
\* and no call reads a buffer byte at an index >= min(length, IdLen).
C9_Rejection ==
    pc = "checked"
    => /\ (match.length < Len(id) \/ ~StartsWithId) => ~match.matched
       /\ match.rd \subseteq 0..(Min2(match.length, Len(id)) - 1)

\* a buffer shorter than the identifier that holds the identifier's first
\* byte and, behind the stated length, its second
C9_Witness ==
    /\ pc = "checked"
    /\ match.length = 1
    /\ StartsWithId
    /\ ~match.matched
    /\ match.rd = {}

\* C10 (bit-mask precision): for a sub-field with offset mod 8 + length <= 8
\* and any 8-bit value v, GetData(offset, length) after WriteData(offset,
\* length, v) returns v mod 2^length; for a 1-bit field, 1 and 5 read back as
\* 1 and 4 reads back as 0.
C10_MaskPrecision ==
    (/\ pc = "accessed"
     /\ bit.op = "write"
     /\ CalculateShift(bit.bitstart) + bit.datalength <= 8)
    => GetData(storage, bit.bitstart, bit.datalength)
          = bit.data % (2 ^ bit.datalength)

\* 4 written to a 1-bit sub-field that held 1, next to a set bit
C10_Witness ==
    /\ pc = "accessed"
    /\ bit.op = "write"
    /\ bit.datalength = 1
    /\ bit.data = 4
    /\ bit.bitstart + 1 < StorageBits
    /\ GetData(bit.before, bit.bitstart, 1) = 1
    /\ GetData(bit.before, bit.bitstart + 1, 1) = 1
    /\ GetData(storage, bit.bitstart, 1) = 0
    /\ GetData(storage, bit.bitstart + 1, 1) = 1

\* C11 (write isolation): a WriteData(offset, length, v) changes only the
\* bits [offset mod 8, offset mod 8 + length) of backing byte offset / 8,
\* every other bit and byte keeps its value, and after any sequence of
\* writes each declared sub-field (offset 0 length 5, offset 13 length 3 of
\* the 70-bit field) reads back the value last written to it.
C11_WriteIsolation ==
    /\ (pc = "large_accessed" /\ bit.op = "write")
       => \A b \in 1..Len(storage), i \in 0..7 :
             (BitOf(storage[b], i) # BitOf(bit.before[b], i))
             => /\ b = GetStorageLocationForBit(bit.bitstart) + 1
                /\ i >= CalculateShift(bit.bitstart)
                /\ i < CalculateShift(bit.bitstart) + bit.datalength
    /\ pc \in {"large", "large_accessed"}
       => \A sf \in LargeSubFields :
             bit.last[sf] # -1 => GetData(storage, sf[1], sf[2]) = bit.last[sf]

\* a write to the sub-field at offset 8 while both declared sub-fields and
\* the rest of byte 0 hold values that are not 0
C11_Witness ==
    /\ pc = "large_accessed"
    /\ bit.op = "write"
    /\ bit.bitstart = 8
    /\ bit.before[2] # storage[2]
    /\ bit.last[<<0, 5>>] = 5
    /\ bit.last[<<13, 3>>] = 7
    /\ GetData(storage, 5, 3) # 0
    /\ GetData(storage, 13, 3) = 7

\* the size of a field by its content: sizeof(T) for a scalar, length + 1
\* for a string, the bytes that hold the bits of a bitfield, the sum of the
\* element sizes for an array
RECURSIVE ContentSize(_, _)
ContentSize(d, v) ==
    CASE d.k = "scalar" -> d.n
      [] d.k \in {"string", "etl"} -> Len(v) + 1
      [] d.k = "bits" -> (d.n + 7) \div 8
      [] d.k = "array" -> SumSeq([i \in 1..d.n |-> ContentSize(d.e[1], v[i])])

PacketContentSize == SumSeq([i \in 1..Len(schema) |-> ContentSize(schema[i], packet[i])])

\* the last Serialize call was given the capacity it needs and did serialize
Serialized == ser # None /\ ser.cap >= NeededCapacity /\ ser.ret # 0

\* the positions the last Serialize call wrote payload bytes to
PayloadPositions == IF ser.op = "range" THEN ser.wr ELSE PayloadWritten

\* the payload byte count in the value the last Serialize call returned: the
\* array and ivector overloads add the identifier length to it
PayloadReturned ==
    IF ser.op \in {"array", "ivector"} THEN ser.ret - Len(id) ELSE ser.ret

\* C12 (size by content): a successful Serialize writes as many payload
\* bytes as the content of the fields takes, length + 1 for each string and
\* never capacity + 1, and the payload byte count it returns equals
\* GetSerializedLength(), which is that sum over the fields.
C12_SizeByContent ==
    Serialized
    => /\ Cardinality(PayloadPositions) = PacketContentSize
       /\ PayloadReturned = GetSerializedLength(schema, packet)
       /\ GetSerializedLength(schema, packet) = PacketContentSize

\* a serialized packet whose bounded string holds one character of its two
C12_Witness ==
    /\ Serialized
    /\ ser.op = "array"
    /\ \E i \in 1..Len(schema) :
          /\ schema[i] = EtlString(2)
          /\ Len(packet[i]) = 1
    /\ GetSerializedLength(schema, packet) < GetMaxSize(schema)

\* the encoding of a field: the raw bytes of a scalar, the content of a
\* string and one 0x00, the backing bytes of a bitfield, the encodings of
\* the elements of an array in index order
RECURSIVE Encoding(_, _)
RECURSIVE EncodingFrom(_, _, _)
EncodingFrom(d, v, i) ==
    IF i > d.n THEN <<>> ELSE Encoding(d.e[1], v[i]) \o EncodingFrom(d, v, i + 1)

Encoding(d, v) ==
    CASE d.k \in {"scalar", "bits"} -> v
      [] d.k \in {"string", "etl"} -> v \o <<0>>
      [] d.k = "array" -> EncodingFrom(d, v, 1)

\* the encodings of the fields from field i on, in declaration order
RECURSIVE PacketEncodingFrom(_)
PacketEncodingFrom(i) ==
    IF i > Len(schema) THEN <<>>
    ELSE Encoding(schema[i], packet[i]) \o PacketEncodingFrom(i + 1)

\* where the payload starts in the buffer of the last Serialize call
PayloadStart == IF ser.op = "range" THEN 0 ELSE Len(id)

\* C13 (wire layout): the bytes a successful Serialize produces are the
\* concatenation, in declaration order and without gaps, padding or
\* separators, of the encodings of the fields.
C13_WireLayout ==
    Serialized
    => /\ PayloadPositions =
             PayloadStart..(PayloadStart + Len(PacketEncodingFrom(1)) - 1)
       /\ SubSeq(buffer, PayloadStart + 1, PayloadStart + Len(PacketEncodingFrom(1)))
             = PacketEncodingFrom(1)

\* a serialized packet of an array with two different elements and a
\* two-byte bitfield with bits set in both bytes
C13_Witness ==
    /\ Serialized
    /\ schema = <<Array(2, Scalar(1)), Bits(9)>>
    /\ packet[1][1] # packet[1][2]
    /\ packet[2][1] # 0
    /\ packet[2][2] # 0
    /\ SubSeq(buffer, PayloadStart + 1, PayloadStart + 4) = PacketEncodingFrom(1)

\* the largest size of a field by its type: n for an n-byte scalar, C + 1
\* for a bounded string of capacity C, the bytes that hold the bits of a
\* bitfield, K times the largest element size for an array of K elements
RECURSIVE LargestSize(_)
LargestSize(d) ==
    CASE d.k = "scalar" -> d.n
      [] d.k = "etl" -> d.n + 1
      [] d.k = "bits" -> (d.n + 7) \div 8
      [] d.k = "array" -> d.n * LargestSize(d.e[1])

\* C14 (max size is an upper bound): for a schema with SupportsMaxSize, a
\* packet that decodes have filled never serializes to more than
\* GetMaxSize() bytes, and GetMaxSize() is the sum over the fields of the
\* largest size of each field's type.
C14_MaxSizeBound ==
    SupportsMaxSize(schema)
    => /\ GetSerializedLength(schema, target) <= GetMaxSize(schema)
       /\ GetMaxSize(schema) = SumSeq([i \in 1..Len(schema) |-> LargestSize(schema[i])])

\* a valid decode of a window longer than the largest packet, all of it
\* characters, that leaves the packet at its largest size
C14_Witness ==
    /\ pc = "decoded"
    /\ SupportsMaxSize(schema)
    /\ has_type("etl", schema)
    /\ uns.ok
    /\ uns.length > GetMaxSize(schema)
    /\ \A i \in 1..uns.length : uns.data[i] # 0
    /\ GetSerializedLength(schema, target) = GetMaxSize(schema)

\* a field of the type is a std::string, or an array whose elements are
RECURSIVE HoldsStdString(_)
HoldsStdString(d) ==
    CASE d.k = "string" -> TRUE
      [] d.k = "array"  -> HoldsStdString(d.e[1])
      [] OTHER          -> FALSE

\* C15 (SupportsMaxSize): SupportsMaxSize is true if and only if no field of
\* the schema is a std::string, a std::string that is the element type of an
\* array field included.
C15_SupportsMaxSizeIff ==
    (pc = "queried" /\ ser.op = "supports")
    => (ser.ret <=> ~\E i \in 1..Len(schema) : HoldsStdString(schema[i]))

\* the number of bytes of data before the first 0x00 among the first lim
\* bytes, lim if there is none
RECURSIVE PrefixLength(_, _, _)
PrefixLength(data, lim, i) ==
    IF i < lim /\ data[i + 1] # 0 THEN PrefixLength(data, lim, i + 1) ELSE i

\* C16 (bounded-string decode): reading an etl::string of capacity C from a
\* window of length bytes stores the bytes before the first 0x00 among the
\* first min(length, C) bytes, all of them if there is none, and consumes
\* one byte more than it stored only if that byte is in the window and is
\* 0x00; otherwise it consumes as many bytes as it stored.
C16_BoundedStringDecode ==
    (pc = "returned" /\ uns # None /\ uns.op = "field" /\ uns.d.k = "etl")
    => LET stored == PrefixLength(uns.data, Min2(uns.length, uns.d.n), 0)
       IN  /\ uns.v = SubSeq(uns.data, 1, stored)
           /\ uns.n = IF stored < uns.length /\ uns.data[stored + 1] = 0
                      THEN stored + 1 ELSE stored

\* the last call was a per-field reader on a field of one of the kinds
FieldRead(kinds) ==
    pc = "returned" /\ uns # None /\ uns.op = "field" /\ uns.d.k \in kinds

\* C17 (strings keep the flag): for every window, length 0, no terminator
\* and content longer than the capacity included, the std::string and
\* etl::string readers leave the valid flag as it was on entry.
C17_StringKeepsValid ==
    FieldRead({"string", "etl"}) => uns.ok = uns.valid

\* a bounded string read, the flag set on entry, from a window without a
\* terminator that holds more characters than the capacity
C17_Witness ==
    /\ FieldRead({"etl"})
    /\ uns.valid
    /\ uns.length > uns.d.n
    /\ \A i \in 1..uns.length : uns.data[i] # 0
    /\ uns.ok

\* C18 (scalar decode): reading an n-byte scalar from a window of length
\* bytes copies the first n bytes, returns n and leaves valid as it was when
\* length >= n; when length < n it clears valid, returns length and leaves
\* the element as it was.
C18_ScalarDecode ==
    FieldRead({"scalar"})
    => IF uns.length >= uns.d.n
       THEN /\ uns.v = SubSeq(uns.data, 1, uns.d.n)
            /\ uns.n = uns.d.n
            /\ uns.ok = uns.valid
       ELSE /\ ~uns.ok
            /\ uns.n = uns.length
            /\ uns.v = uns.before

\* a two-byte scalar holding a value, read with the flag set from a window
\* of one byte that differs from it
C18_Witness ==
    /\ FieldRead({"scalar"})
    /\ uns.d.n = 2
    /\ uns.length = 1
    /\ uns.valid
    /\ uns.before = <<1, 1>>
    /\ uns.data[1] # 1
    /\ uns.v = uns.before
    /\ ~uns.ok

\* the position in the window of the last array read at which element i
\* ends, element by element from the start of the window
RECURSIVE ElementEnd(_)
\* what the element reader yields for element i of the last array read,
\* started where element i - 1 ended
ElementRead(i) ==
    deserializeFromBuffer(uns.d.e[1], Advance(uns.data, ElementEnd(i - 1)),
                          uns.length - ElementEnd(i - 1), uns.before[i], TRUE)

ElementEnd(i) == IF i = 0 THEN 0 ELSE ElementEnd(i - 1) + ElementRead(i).n

\* C19 (array decode): reading a K-element array whose serialized size
\* exceeds the window's length clears valid, returns length and changes no
\* element; otherwise the elements are read in index order, each from the
\* bytes behind the one before, and the sum of the bytes they consumed is
\* returned.
C19_ArrayDecode ==
    FieldRead({"array"})
    => IF getSerializedLength(uns.d, uns.before) > uns.length
       THEN /\ ~uns.ok
            /\ uns.n = uns.length
            /\ uns.v = uns.before
       ELSE /\ \A i \in 1..uns.d.n : uns.v[i] = ElementRead(i).v
            /\ uns.n = ElementEnd(uns.d.n)

\* an array that holds values, read with the flag set from a window that is
\* not empty and too short for it
C19_Witness ==
    /\ FieldRead({"array"})
    /\ uns.valid
    /\ uns.length > 0
    /\ uns.length < getSerializedLength(uns.d, uns.before)
    /\ uns.before = SetValue(uns.d)
    /\ uns.data[1] # 1
    /\ uns.v = uns.before
    /\ ~uns.ok

\* C20 (bitfield decode): ParseData copies min(length, BYTE_LENGTH) bytes
\* into the first backing bytes and returns that count; if length <
\* BYTE_LENGTH it clears valid and the backing bytes from index length on
\* keep their values; if length >= BYTE_LENGTH it leaves valid as it was.
C20_BitfieldDecode ==
    FieldRead({"bits"})
    => LET size   == (uns.d.n + 7) \div 8
           copied == Min2(uns.length, size)
       IN  /\ uns.n = copied
           /\ Len(uns.v) = size
           /\ \A i \in 1..size :
                 uns.v[i] = IF i <= copied THEN uns.data[i] ELSE uns.before[i]
           /\ uns.ok = (uns.valid /\ uns.length >= size)

\* a two-byte bitfield holding bits in both bytes, read with the flag set
\* from a window of one byte
C20_Witness ==
    /\ FieldRead({"bits"})
    /\ uns.d.n = 9
    /\ uns.length = 1
    /\ uns.valid
    /\ uns.before = <<1, 1>>
    /\ uns.v[1] # 1
    /\ uns.v[2] = 1
    /\ ~uns.ok

\* field i of the packet type of an Unserialize(data, length) call decoded on
\* its own, with a flag that is true on entry, from the window that starts at
\* offset and holds the bytes of the call's window that remain there
FieldAlone(i, offset) ==
    deserializeFromBuffer(uns.d[i], Advance(uns.data, offset),
                          uns.length - offset, DefaultValue(uns.d[i]), TRUE)

\* the running offset of the call before field i: the sum of the counts of
\* the fields before it
RECURSIVE OffsetBefore(_)
OffsetBefore(i) ==
    IF i = 1 THEN 0
    ELSE OffsetBefore(i - 1) + FieldAlone(i - 1, OffsetBefore(i - 1)).n

\* C21: Unserialize decodes every field in declaration order, each from the
\* window that starts at the running offset with length - offset bytes
\* remaining: the flag it returns is the conjunction of the fields' own
\* validities, the count it returns the sum of the fields' counts, and every
\* field of the parsed tuple is what its reader produced, also after a field
\* that cleared the flag.
C21_Fold ==
    (pc = "returned" /\ uns.op = "parse") =>
        /\ \A i \in 1..Len(uns.d) : OffsetBefore(i) <= uns.length
        /\ uns.ok = (\A i \in 1..Len(uns.d) : FieldAlone(i, OffsetBefore(i)).ok)
        /\ uns.n = OffsetBefore(Len(uns.d) + 1)
        /\ \A i \in 1..Len(uns.d) : uns.v[i] = FieldAlone(i, OffsetBefore(i)).v

\* a packet whose first field is cut short by the window and whose last field
\* is valid on its own: the returned flag stays false
C21_Witness ==
    /\ pc = "returned"
    /\ uns.op = "parse"
    /\ Len(uns.d) >= 2
    /\ ~FieldAlone(1, 0).ok
    /\ FieldAlone(Len(uns.d), OffsetBefore(Len(uns.d))).ok
    /\ uns.length > 0
    /\ ~uns.ok

\* the indices at which the checked buffer differs from the identifier
Diverging == {i \in 0..(IdLen - 1) : Peek(match.data, i) # id[i + 1]}

\* the first of them
FirstDivergence == CHOOSE i \in Diverging : \A j \in Diverging : i <= j

\* C22: when length >= IdLen and the buffer differs from the identifier first
\* at index i < IdLen, CheckIDMatch returns no match, a payload start at
\* buffer index i and length - i as the remaining length, from the pointer
\* overload and from the std::array overload alike.
C22_MismatchPosition ==
    (/\ pc = "checked"
     /\ match.length >= IdLen
     /\ match.length <= Len(match.data)
     /\ Diverging # {}) =>
        /\ ~match.matched
        /\ match.start = FirstDivergence
        /\ match.remaining = match.length - FirstDivergence

\* C23: a TagedComPacket's identifier is all-zero after construction
\* without an explicit identifier; SetID with a source of m bytes overwrites
\* identifier bytes [0, min(m, IdLen)) with the source's first bytes in order
\* and leaves the bytes [m, IdLen) as they were, so that after any sequence
\* of SetID calls every identifier byte holds the byte of the most recent
\* source that reached its index, and a byte of a default-constructed packet
\* that none has reached is 0.
C23_IdentifierState ==
    /\ Len(id) = IdLen
    /\ \A i \in 1..IdLen :
          /\ ser.last[i] # NotSet => id[i] = ser.last[i]
          /\ (ser.ctor = "default" /\ ser.last[i] = NotSet) => id[i] = 0

\* the latest SetID had a one-byte source and an earlier, longer one set the
\* second identifier byte, which is still there
C23_Witness ==
    /\ ser.ctor = "default"
    /\ ser.m = 1
    /\ ser.last[2] # NotSet
    /\ id[2] = ser.last[2]
    /\ id[2] # 0
    /\ id[1] # 0
    /\ id[1] # id[2]

\* the bit range of the access runs over the end of its backing byte
CrossesByte == CalculateShift(bit.bitstart) + bit.datalength > 8

\* C24: a GetData or WriteData whose bit range crosses a backing-byte
\* boundary (offset mod 8 + length > 8) is rejected and neither reads nor
\* modifies the backing storage, so no such call returns; and a call that
\* returns with offset + length <= N accessed a backing index offset / 8
\* below BYTE_LENGTH.
C24_ByteBoundaryContract ==
    pc = "accessed" =>
        /\ ~CrossesByte
        /\ (bit.op = "write" /\ CrossesByte) => storage = bit.before
        /\ bit.bitstart + bit.datalength <= BitLen =>
              GetStorageLocationForBit(bit.bitstart) < BYTE_LENGTH(BitLen)

\* every byte of a value of type d is 0 and every string in it is empty
RECURSIVE Cleared(_, _)
Cleared(d, v) ==
    CASE d.k = "scalar" -> Len(v) = d.n /\ \A i \in 1..Len(v) : v[i] = 0
      [] d.k = "string" -> v = <<>>
      [] d.k = "etl"    -> v = <<>>
      [] d.k = "bits"   -> /\ Len(v) = CalculateArrayLength(BYTE_LENGTH(d.n))
                           /\ \A i \in 1..Len(v) : v[i] = 0
      [] d.k = "array"  -> Len(v) = d.n /\ \A i \in 1..Len(v) : Cleared(d.e[1], v[i])

\* the fields of the packet being filled that a step changes
FieldsChanged == {i \in 1..Len(schema) : packet'[i] # packet[i]}

\* C25: a default-constructed packet has every scalar field 0, every string
\* empty and every bitfield backing byte 0, and an assignment to one field
\* through its accessor changes that field only: no step that fills the
\* packet changes more than one of its fields, or any field of the other
\* packet.
C25_StorageIndependence ==
    /\ \A i \in 1..Len(schema) :
          Cleared(schema[i], packet[i]) /\ Cleared(schema[i], target[i])
    /\ [][(pc = "build" /\ pc' = "build") =>
             /\ Len(packet') = Len(schema)
             /\ Cardinality(FieldsChanged) <= 1
             /\ target' = target]_vars

\* the last field of the packet has been assigned and the first still holds
\* what the constructor left
C25_Witness ==
    /\ pc = "build"
    /\ Len(schema) >= 2
    /\ ~Cleared(schema[Len(schema)], packet[Len(schema)])
    /\ Cleared(schema[1], packet[1])

\* C26: after any sequence of Unserialize calls on the same target packet,
\* with any buffers and lengths, the target holds the values parsed by the
\* most recent call that returned valid = true, or the values it had before
\* the first call if none has; it never holds a mixture of two decodes.
C26_LastValidDecode ==
    /\ target = ser.v
    /\ ~ser.any => target = DefaultPacket(schema)

\* an invalid decode of a window that is not empty, after a valid one: the
\* target still holds what the valid one parsed, and nothing of what the
\* invalid one did
C26_Witness ==
    /\ pc = "decoded"
    /\ ~uns.ok
    /\ uns.length > 0
    /\ ser.any
    /\ target = ser.v
    /\ target # DefaultPacket(schema)
    /\ \A i \in 1..Len(schema) :
          Unserialize_parse(schema, uns.data, uns.length).v[i] # target[i]

\* C27: every field reader returns a count no greater than the length of the
\* window it was given, so at every step of Unserialize the running offset
\* lies in 0..length, the remaining length length - offset does not
\* underflow, and the count returned at the end is at most length.
C27_OffsetBound ==
    (pc = "returned" /\ uns.op \in {"field", "parse"}) =>
        /\ 0 <= uns.n
        /\ uns.n <= uns.length
        /\ uns.op = "parse" =>
              \A i \in 1..(Len(uns.d) + 1) :
                 /\ 0 <= OffsetBefore(i)
                 /\ OffsetBefore(i) <= uns.length
                 /\ i <= Len(uns.d) =>
                       FieldAlone(i, OffsetBefore(i)).n <= uns.length - OffsetBefore(i)

\* a packet whose last field is a string that runs to the end of the window
\* without a terminator: the offset ends at length exactly
C27_Witness ==
    /\ pc = "returned"
    /\ uns.op = "parse"
    /\ uns.d[Len(uns.d)].k \in {"string", "etl"}
    /\ OffsetBefore(Len(uns.d)) > 0
    /\ OffsetBefore(Len(uns.d)) < uns.length
    /\ Peek(uns.data, uns.length - 1) # 0
    /\ uns.n = uns.length

\* the call took the early return of the iterator overload: its length
\* reaches beyond the array or beyond end
EarlyReturn ==
    uns.op = "it" /\ (uns.length > Len(buffer) \/ uns.length > Len(uns.data))

\* C28: whenever Unserialize returns valid = false, other than through its
\* early return for a length beyond the buffer, the count of bytes consumed
\* it returns is the length it was given.
C28_InvalidConsumesWindow ==
    (pc = "decoded" /\ ~uns.ok /\ ~EarlyReturn) => uns.n = uns.length

\* a packet whose first field is complete and whose last field finds a
\* window that is not empty but too short: the call returns length
C28_Witness ==
    /\ pc = "decoded"
    /\ ~EarlyReturn
    /\ ~uns.ok
    /\ FieldAlone(1, 0).ok
    /\ OffsetBefore(Len(uns.d)) > 0
    /\ OffsetBefore(Len(uns.d)) < uns.length
    /\ ~FieldAlone(Len(uns.d), OffsetBefore(Len(uns.d))).ok
    /\ uns.n = uns.length

\* the in-bounds values of a field of type d with bytes from S: strings
\* within their capacity and without a 0x00 in their content
RECURSIVE ValuesOver(_, _)
ValuesOver(d, S) ==
    CASE d.k = "scalar" -> SeqsOfLen(S, d.n)
      [] d.k = "string" -> SeqsUpTo(S \ {0}, MaxStr)
      [] d.k = "etl"    -> SeqsUpTo(S \ {0}, d.n)
      [] d.k = "bits"   -> SeqsOfLen(S, CalculateArrayLength(BYTE_LENGTH(d.n)))
      [] d.k = "array"  -> SeqsOfLen(ValuesOver(d.e[1], S), d.n)

\* the in-bounds packets of a packet type with bytes from S
RECURSIVE PacketsFrom(_, _, _)
PacketsFrom(sch, S, i) ==
    IF i > Len(sch) THEN {<<>>}
    ELSE {<<v>> \o rest : v \in ValuesOver(sch[i], S),
                          rest \in PacketsFrom(sch, S, i + 1)}

PacketsOver(sch, S) == PacketsFrom(sch, S, 1)

\* the payload encoding of packet p: what Serialize(begin, end) writes into
\* a buffer of the packet's serialized length
PayloadOf(sch, p) ==
    LET cap == GetSerializedLength(sch, p)
        s   == Serialize_range(sch, p, Filled(cap, 0), 0, cap)
    IN  Take(s.mem, s.ret)

\* C29: if the window starts with the payload encoding of an in-bounds
\* packet P, n bytes long, whatever bytes follow it and whatever length >= n
\* the call is given, Unserialize returns valid = true and n as the count of
\* bytes consumed and leaves the target equal to P.
C29_SelfDelimiting ==
    (pc = "decoded" /\ ~EarlyReturn) =>
        \A p \in PacketsOver(schema, WindowVals) :
           LET enc == PayloadOf(schema, p)
           IN  (Len(enc) <= uns.length /\ Take(uns.data, Len(enc)) = enc)
               => /\ uns.ok
                  /\ uns.n = Len(enc)
                  /\ target = p

\* a window that holds the encoding of a packet with a string that is not
\* empty, and a trailing byte behind it
C29_Witness ==
    /\ pc = "decoded"
    /\ ~EarlyReturn
    /\ uns.ok
    /\ uns.n < uns.length
    /\ Take(uns.data, uns.n) = PayloadOf(schema, target)
    /\ \E i \in 1..Len(schema) :
          schema[i].k \in {"string", "etl"} /\ target[i] # <<>>
    /\ Peek(uns.data, uns.n) # 0

\* how many bytes behind the window the second buffer of a comparison varies
MaxTail == 2

\* the position in the array at which the window of the decode starts
WindowStart == Len(buffer) - Len(uns.data)

\* buffers that agree with the one decoded on the window of the call and
\* hold other bytes behind it; for a call that returned early, whose length
\* reaches beyond the array, arrays of the same size
OtherBuffers ==
    IF uns.op = "ptr"
    THEN {Take(uns.data, uns.length) \o t : t \in SeqsUpTo(ByteVals, MaxTail)}
    ELSE IF EarlyReturn
    THEN {Filled(Len(buffer), b) : b \in ByteVals}
    ELSE LET rest == Len(buffer) - WindowStart - uns.length
         IN  {Take(buffer, WindowStart + uns.length) \o t
                  \o Filled(rest - Len(t), 0) :
                t \in SeqsOfLen(ByteVals, Min2(rest, MaxTail))}

\* the same call, with the same length and on a target with the same prior
\* values, made on another buffer
DecodeAgain(other) ==
    IF uns.op = "ptr"
    THEN Unserialize_ptr(schema, other, uns.length, uns.before)
    ELSE Unserialize_it(schema, other, WindowStart, Len(other), uns.length,
                        uns.before)

\* C30: Unserialize depends on the declared window only: on two buffers that
\* agree on their first length bytes, with targets that held equal values,
\* it returns the same count and the same validity and leaves the targets
\* equal, whatever the buffers hold from index length on.
C30_WindowOnly ==
    pc = "decoded" =>
        \A other \in OtherBuffers :
           /\ DecodeAgain(other).n = uns.n
           /\ DecodeAgain(other).ok = uns.ok
           /\ DecodeAgain(other).elems = target

\* a valid decode whose window ends inside a string, in an array that holds
\* more bytes behind the window
C30_Witness ==
    /\ pc = "decoded"
    /\ uns.op = "it"
    /\ ~EarlyReturn
    /\ uns.ok
    /\ uns.length < Len(uns.data)
    /\ schema[Len(schema)].k \in {"string", "etl"}
    /\ target[Len(schema)] # <<>>
    /\ Peek(uns.data, uns.length - 1) # 0
    /\ uns.n = uns.length

=============================================================================
